---- MODULE Spec2Model ----
(***************************************************************************)
(* Model of the simulation core of hepv-analyzer.py: the vehicle power     *)
(* model, the two efficiency maps, tank_thermodynamics, urban_cycle and    *)
(* the two integrators simulate_bev and simulate_hepv.                     *)
(*                                                                         *)
(* The program computes in float64.  The model computes in fixed point on  *)
(* integers; every division rounds toward minus infinity (\div).  Units:   *)
(*   speed (integrators)  m/s            power    0.1 W  (dW)              *)
(*   energy               0.1 J (dJ)     SoC      battery energy / BattCap *)
(*   pressure             25 Pa          temperature  0.01 K (cK)          *)
(*   efficiencies, ratios 0.001          time step    s                    *)
(*   speed (urban_cycle)  mm/s           time (urban_cycle) 0.1 s          *)
(* Arrays keep the program's indices 0..n-1.                               *)
(***************************************************************************)
EXTENDS Integers, Sequences, FiniteSets, TLC

\* ------------------------------------------------------------------ bounds
MaxLen == 4          \* longest input series given to the integrators
MaxTankSteps == 3    \* longest sequence of free-standing tank transitions
MaxDuration == 12    \* longest urban_cycle duration, in seconds

Speeds == {0, 9, 23, 133}           \* speed samples, m/s
DTs == {1, 30}                      \* time steps of the input series, s
TankPowers == {50000, 300000}       \* tank power inputs, dW
TankDTs == {1, 60}                  \* tank time steps, s
CycleDTs == {10, 15, 30, 0, -10}    \* urban_cycle dt, 0.1 s
EffSpeeds == {0, 50, 150, 300, 450, 537, 700, 900, 2000, 4788}  \* 0.1 km/h
EffLoads == {0, 50, 99, 300, 800, 900, 1000, 2000}      \* load, 0.001
EffBars == {0, 1, 30, 75, 100, 150, 200, 250, 300, 700} \* pressure, bar

\* ------------------------------------------------------- Params (fixed point)
m0 == 450                  \* kg
m_pneu == 50               \* kg
Cd == 28                   \* 0.28, in 0.01
A == 12                    \* 1.2 m^2, in 0.1
Crr == 12                  \* 0.012, in 0.001
batt_kWh == 5
motor_Pmax == 150000       \* 15 000 W, in dW
motor_eta_peak == 920      \* 0.92, in 0.001
motor_rpm_base == 4275
regen_eta == 75            \* 0.75, in percent
battery_charge_limit == 98 \* 0.98, in percent
Vtank == 50                \* 0.050 m^3, in litres
Pmax == 1200000            \* 300e5 Pa, in 25 Pa
Pmin == 400000             \* 100e5 Pa, in 25 Pa
comp_eta == 60             \* 0.60, in percent
pneu_eta_peak == 40        \* 0.40, in percent
leak_per_min == 2          \* 0.02, in percent
rho == 1225                \* 1.225 kg/m^3, in 0.001
g == 981                   \* 9.81 m/s^2, in 0.01
Tamb == 29300              \* 293.0 K, in cK
Pamb == 4053               \* 101 325 Pa, in 25 Pa
n_comp == 130              \* 1.30, in percent
n_exp == 125               \* 1.25, in percent
heat_coef == 10            \* 0.10, in percent
wheel_diam == 600          \* 0.60 m, in mm
gear == 9
PowerClipLo == -120000     \* np.clip(Pm, -12_000, ...), in dW
TClipLo == 27300           \* np.clip(T_new, 273, ...), in cK
TClipHi == 40000           \* np.clip(T_new, ..., 400), in cK
PneuShare == 35            \* 0.35 * Pm, in percent
PneuSpeedMax == 350        \* kmh < 35, in 0.1 km/h
PneuBarMin == 400000       \* p_bar > 100, in 25 Pa
PneuPowerMin == 80000      \* Pm > 8_000, in dW
PneuSocMin == 200          \* soc[k-1] > 0.2, in 0.001
RegenSocMin == 300         \* soc[k-1] < 0.3, in 0.001
RegenBarMax == 1120000     \* p_bar > 280, in 25 Pa
RegenBattShare == 75       \* 0.75 * Preg, in percent
RegenTankShare == 25       \* 0.25 * Preg, in percent

\* batt_kWh * 3.6e6 J, in dJ
BattCap == batt_kWh * 36000000

\* The SoC value pm/1000, in the unit of the soc arrays (1/BattCap).
SocFrac(pm) == (BattCap \div 1000) * pm

\* --------------------------------------------------------------- helpers
Min(a, b) == IF a <= b THEN a ELSE b
Max(a, b) == IF a >= b THEN a ELSE b
Abs(a) == IF a >= 0 THEN a ELSE -a
\* np.clip
Clip(x, lo, hi) == IF x < lo THEN lo ELSE IF x > hi THEN hi ELSE x
\* (a * m) / b without leaving 32 bits, for b > 0.
MulDiv(a, m, b) == (a \div b) * m + ((a % b) * m) \div b

\* ------------------------------------------------------- physics models
\* aero_drag, in dN (0.1 N)
aero_drag(v) == MulDiv(rho * Cd * A, v * v, 200000)

\* rolling_resistance, in dN
rolling_resistance(m) == (Crr * m * g) \div 10000

\* power_required: F * max(v, 1e-2); a is (dv, dt); result in dW.
power_required(v, dv, dt, m) ==
    LET F == (m * dv * 10) \div dt + aero_drag(v) + rolling_resistance(m)
    IN  MulDiv(F, Max(100 * v, 1), 100)

\* speed_to_rpm: kmh in 0.1 km/h, result in 0.001 rpm; pi is 355/113.
speed_to_rpm(kmh) ==
    LET v_ms == (kmh * 1000) \div 36                    \* mm/s
        wheel_rps == (v_ms * 1000) \div (wheel_diam \div 2)   \* 0.001 /s
        wheel_rpm == MulDiv(wheel_rps * 60, 113, 2 * 355)
    IN  wheel_rpm * gear

\* electric_motor_efficiency: kmh in 0.1 km/h, load in 0.001, result in 0.001.
electric_motor_efficiency(kmh, load) ==
    LET rpm == speed_to_rpm(kmh)
        x == rpm \div motor_rpm_base
        s_eff == IF x < 200 THEN 7500
                 ELSE IF x < 500 THEN 7500 + (1500 * (x - 200)) \div 300
                 ELSE IF x <= 1500 THEN 9000 + (200 * (1000 - Abs(x - 1000))) \div 1000
                 ELSE 9000 - (x - 1500)
        l_eff == IF load < 100 THEN 6000 + 40 * load
                 ELSE IF load < 800 THEN 10000
                 ELSE 10000 - (500 * (load - 800)) \div 200
    IN  Clip(MulDiv(l_eff, s_eff, 100000), 700, motor_eta_peak)

\* Faulty variant: the result is not clipped.
pneumatic_motor_efficiency_noclip(kmh, bar) ==
    LET p_eff == IF bar < 50 THEN 3000
                 ELSE IF bar < 100 THEN 5000 + (3000 * (bar - 50)) \div 50
                 ELSE IF bar <= 200 THEN 8000
                 ELSE 8000 - (2000 * (bar - 200)) \div 100
        s_eff == IF kmh < 200 THEN 10000
                 ELSE IF kmh < 400 THEN 10000 - (1500 * (kmh - 200)) \div 200
                 ELSE IF kmh < 600 THEN 8500 - (2500 * (kmh - 400)) \div 200
                 ELSE Max(6000 - (2000 * (kmh - 600)) \div 200, 4000)
    IN  (((pneu_eta_peak * p_eff) \div 100) * s_eff) \div 100000

\* pneumatic_motor_efficiency: kmh in 0.1 km/h, bar in bar, result in 0.001;
\* p_eff and s_eff in 0.0001.
pneumatic_motor_efficiency(kmh, bar) ==
    LET p_eff == IF bar < 50 THEN 3000
                 ELSE IF bar < 100 THEN 5000 + (3000 * (bar - 50)) \div 50
                 ELSE IF bar <= 200 THEN 8000
                 ELSE 8000 - (2000 * (bar - 200)) \div 100
        s_eff == IF kmh < 200 THEN 10000
                 ELSE IF kmh < 400 THEN 10000 - (1500 * (kmh - 200)) \div 200
                 ELSE IF kmh < 600 THEN 8500 - (2500 * (kmh - 400)) \div 200
                 ELSE Max(6000 - (2000 * (kmh - 600)) \div 200, 4000)
    IN  Clip((((pneu_eta_peak * p_eff) \div 100) * s_eff) \div 100000, 150, 450)

\* x ** e on ratios in 0.001, rounding after every multiplication; a product
\* that would leave 32 bits saturates at the ratio 2000.
RECURSIVE FxPow(_, _)
FxPow(x, e) ==
    IF e = 0 THEN 1000
    ELSE LET p == FxPow(x, e - 1)
         IN  IF x > 0 /\ p > 2000000000 \div x THEN 2000000
             ELSE (p * x) \div 1000

\* The largest x in lo..hi with FxPow(x, den) <= target, by bisection.
RECURSIVE FxRootIn(_, _, _, _)
FxRootIn(lo, hi, target, den) ==
    IF lo >= hi THEN lo
    ELSE LET mid == (lo + hi + 1) \div 2
         IN  IF FxPow(mid, den) <= target
             THEN FxRootIn(mid, hi, target, den)
             ELSE FxRootIn(lo, mid - 1, target, den)

\* q ** (num/den) on ratios in 0.001: the root is sought in 0..4000.
FxRatPow(q, num, den) == FxRootIn(0, 4000, FxPow(q, num), den)

Gcd(a, b) == CHOOSE d \in 1..b : /\ a % d = 0 /\ b % d = 0
                                /\ \A e \in (d + 1)..b : a % e # 0 \/ b % e # 0

\* Faulty variant: the polytropic term has the factor (n - 1).
TankIntermediate_raising(Pa, Pw, dt, charging) ==
    LET E == IF charging THEN (Pw * dt * comp_eta) \div 100
                         ELSE -((Pw * dt * 100) \div pneu_eta_peak)
        n == IF charging THEN n_comp ELSE n_exp
    IN  Pa + (E * (n - 100)) \div (Vtank * 25)

\* tank_thermodynamics, "# Energy transfer" and "# Polytropic process": the
\* intermediate pressure Pa_new = Pa + dP.
TankIntermediate(Pa, Pw, dt, charging) ==
    LET E == IF charging THEN (Pw * dt * comp_eta) \div 100
                         ELSE -((Pw * dt * 100) \div pneu_eta_peak)
        n == IF charging THEN n_comp ELSE n_exp
    IN  Pa + (E * (100 - n)) \div (Vtank * 25)

\* tank_thermodynamics before "# Limits": <<Pa_new, T_new>> after the energy
\* transfer, the polytropic temperature change, the heat transfer to ambient
\* and the leakage.  Pa in 25 Pa, T in cK, Pw in dW, dt in s.
TankUnclipped(Pa, T, Pw, dt, charging) ==
    LET n == IF charging THEN n_comp ELSE n_exp
        Pa_new == TankIntermediate(Pa, Pw, dt, charging)
        d == Gcd(n - 100, n)
        T_ratio == FxRatPow(MulDiv(Pa_new, 1000, Pa), (n - 100) \div d, n \div d)
        T_new == IF Pa_new > 0 /\ Pa > 0 THEN (T * T_ratio) \div 1000 ELSE T
        T_amb == T_new + ((Tamb - T_new) * heat_coef * dt) \div 100
        Pa_leak == Pa_new + ((-Pa_new) * leak_per_min * dt) \div 6000
    IN  << Pa_leak, T_amb >>

\* Faulty variant: the pressure floor of the clamp is 0 instead of Pamb.
tank_thermodynamics_floor0(Pa, T, Pw, dt, charging) ==
    LET r == TankUnclipped(Pa, T, Pw, dt, charging)
    IN  << Clip(r[1], 0, Pmax), Clip(r[2], TClipLo, TClipHi) >>

\* tank_thermodynamics: returns <<new_pressure, new_temperature>>.
tank_thermodynamics(Pa, T, Pw, dt, charging) ==
    LET r == TankUnclipped(Pa, T, Pw, dt, charging)
    IN  << Clip(r[1], Pamb, Pmax), Clip(r[2], TClipLo, TClipHi) >>

\* ------------------------------------------------------------------ state
VARIABLES
    entry,   \* the entry point this run exercises: "sim", "tank", "cycle"
             \* or "eff"
    t,       \* input time series of the integrators (array 0..n-1, s)
    v,       \* input speed series of the integrators (array 0..n-1, m/s)
    bev,     \* locals and result of simulate_bev
    hepv,    \* locals and result of simulate_hepv
    tank,    \* tank state under free-standing tank_thermodynamics calls
    cyc,     \* results of the last two urban_cycle calls
    effs     \* the last call of an efficiency map: arguments and result

vars == << entry, t, v, bev, hepv, tank, cyc, effs >>

ArrayLen(a) == Cardinality(DOMAIN a)
Full(n, x) == [i \in 0..(n - 1) |-> x]

\* -------------------------------------------------------- simulate_bev
BevEntry == [pc |-> "start", k |-> 0, dt |-> 0, n |-> 0, batt |-> 0,
             soc |-> << >>, eff |-> << >>, power |-> << >>, E |-> 0]

\* dt = t[1] - t[0] ... power = np.zeros(n); t[1] raises IndexError when the
\* series has fewer than two samples.
BevBegin(b) ==
    IF ArrayLen(t) < 2
    THEN [b EXCEPT !.pc = "error"]
    ELSE LET n == ArrayLen(t)
         IN  [b EXCEPT !.pc = "loop", !.k = 1, !.dt = t[1] - t[0],
                       !.n = n, !.batt = BattCap,
                       !.soc = Full(n, BattCap),
                       !.eff = Full(n, 0), !.power = Full(n, 0)]

BevStart ==
    /\ entry = "sim" /\ bev.pc = "start"
    /\ bev' = BevBegin(bev)
    /\ UNCHANGED << entry, t, v, hepv, tank, cyc, effs >>

\* The regenerated power of a braking step of simulate_bev.
BevPreg(Pm, batt, dt) ==
    Min(((-Pm) * regen_eta) \div 100,
        ((BattCap \div 100) * battery_charge_limit - batt) \div dt)

\* Faulty variant: the driving step adds the drawn energy.
BevDrive_plus(Pm, eta, batt, dt) == batt + MulDiv(Pm, 1000, eta) * dt

\* The battery energy after the driving step of simulate_bev.
BevDrive(Pm, eta, batt, dt) == batt - MulDiv(Pm, 1000, eta) * dt

\* The clipped power demand of simulate_bev.
BevPm(vk, dv, dt) == Clip(power_required(vk, dv, dt, m0), PowerClipLo, motor_Pmax)

\* The battery energy after the "if Pm >= 0: ... else: ..." of simulate_bev,
\* for the clipped demand Pm at kmh (0.1 km/h).
BevBatt(Pm, kmh, batt, dt) ==
    IF Pm >= 0
    THEN BevDrive(Pm, electric_motor_efficiency(kmh, MulDiv(Pm, 1000, motor_Pmax)),
                  batt, dt)
    ELSE batt + BevPreg(Pm, batt, dt) * dt

\* The locals of simulate_bev after the body of "for k in range(1, n)" has
\* run for k = b.k.
BevBody(b) ==
    LET k == b.k
        dt == b.dt
        Pm == BevPm(v[k], v[k] - v[k-1], dt)
        load == MulDiv(Pm, 1000, motor_Pmax)
        eta == electric_motor_efficiency(v[k] * 36, load)
        batt == BevBatt(Pm, v[k] * 36, b.batt, dt)
    IN  [b EXCEPT !.k = k + 1, !.batt = batt,
                  !.power[k] = Pm,
                  !.eff[k] = IF Pm >= 0 THEN eta ELSE regen_eta * 10,
                  !.soc[k] = Clip(batt, 0, BattCap)]

\* One iteration of "for k in range(1, n)" of simulate_bev.
BevStep ==
    /\ entry = "sim" /\ bev.pc = "loop" /\ bev.k < bev.n
    /\ bev' = BevBody(bev)
    /\ UNCHANGED << entry, t, v, hepv, tank, cyc, effs >>

\* return {..., 'E_kWh': (P.batt_kWh * 3.6e6 - batt) / 3.6e6}; E is kept in dJ.
BevResult(b) == [b EXCEPT !.pc = "done", !.E = BattCap - b.batt]

BevReturn ==
    /\ entry = "sim" /\ bev.pc = "loop" /\ bev.k >= bev.n
    /\ bev' = BevResult(bev)
    /\ UNCHANGED << entry, t, v, hepv, tank, cyc, effs >>

\* ------------------------------------------------------- simulate_hepv
\* Pm and Pb0 record, per index, the demand Pm and the battery share Pb of a
\* braking step before the charge cap.
HepvEntry == [pc |-> "start", k |-> 0, dt |-> 0, n |-> 0, batt |-> 0,
              soc |-> << >>, tankP |-> << >>, tankT |-> << >>,
              Pe |-> << >>, Pp |-> << >>, pneu_count |-> 0, E |-> 0,
              Pm |-> << >>, Pb0 |-> << >>]

HepvBegin(h) ==
    IF ArrayLen(t) < 2
    THEN [h EXCEPT !.pc = "error"]
    ELSE LET n == ArrayLen(t)
         IN  [h EXCEPT !.pc = "loop", !.k = 1,
                       !.dt = t[1] - t[0], !.n = n,
                       !.batt = BattCap,
                       !.soc = Full(n, BattCap),
                       !.tankP = Full(n, Pamb),
                       !.tankT = Full(n, Tamb),
                       !.Pe = Full(n, 0), !.Pp = Full(n, 0),
                       !.pneu_count = 0,
                       !.Pm = Full(n, 0), !.Pb0 = Full(n, 0)]

HepvStart ==
    /\ entry = "sim" /\ hepv.pc = "start"
    /\ hepv' = HepvBegin(hepv)
    /\ UNCHANGED << entry, t, v, bev, tank, cyc, effs >>

\* Faulty variant: the pressure test is missing.
use_pneu_nopressure(kmh, tankPprev, Pm, socPrev) ==
    /\ kmh < PneuSpeedMax
    /\ Pm > PneuPowerMin
    /\ socPrev > SocFrac(PneuSocMin)

\* use_pneu = (kmh < 35 and p_bar > 100 and Pm > 8_000 and soc[k-1] > 0.2)
use_pneu(kmh, tankPprev, Pm, socPrev) ==
    /\ kmh < PneuSpeedMax
    /\ tankPprev > PneuBarMin
    /\ Pm > PneuPowerMin
    /\ socPrev > SocFrac(PneuSocMin)

\* Faulty variant: the counter is incremented in every traction step.
PneuCountNext_always(count, use) == count + 1

\* pneu_count += 1, in the use_pneu branch only.
PneuCountNext(count, use) == IF use THEN count + 1 ELSE count

\* The traction split: <<Pe[k], Pp[k]>>.
TractionSplit(use, Pm) ==
    IF use THEN LET pp == (PneuShare * Pm) \div 100 IN << Pm - pp, pp >>
    ELSE << Pm, 0 >>

\* Faulty variant: "and" for "or".
RegenBattOnly_and(socPrev, tankPprev) ==
    socPrev < SocFrac(RegenSocMin) /\ tankPprev > RegenBarMax

\* if soc[k-1] < 0.3 or p_bar > 280: all regeneration goes to the battery.
RegenBattOnly(socPrev, tankPprev) ==
    socPrev < SocFrac(RegenSocMin) \/ tankPprev > RegenBarMax

\* The regen split: <<Pb, Pt>> before the charge-limit cap.
RegenSplit(socPrev, tankPprev, Preg) ==
    IF RegenBattOnly(socPrev, tankPprev)
    THEN << Preg, 0 >>
    ELSE << (RegenBattShare * Preg) \div 100, (RegenTankShare * Preg) \div 100 >>

\* Pb = min(Pb, (P.batt_kWh * 3.6e6 * P.battery_charge_limit - batt) / dt)
HepvPbCap(Pb, batt, dt) ==
    Min(Pb, ((BattCap \div 100) * battery_charge_limit - batt) \div dt)

\* The tank state written at index k: tank_thermodynamics when power flows,
\* else a copy of index k-1.
HepvTank(Pprev, Tprev, Pw, dt, charging) ==
    IF Pw > 0 THEN tank_thermodynamics(Pprev, Tprev, Pw, dt, charging)
    ELSE << Pprev, Tprev >>

\* The locals of simulate_hepv after the body of "for k in range(1, n)" has
\* run for k = h.k.
HepvBody(h) ==
    LET k == h.k
        dt == h.dt
        m == m0 + m_pneu
        Pm == power_required(v[k], v[k] - v[k-1], dt, m)
        kmh == v[k] * 36
        Pprev == h.tankP[k-1]
        Tprev == h.tankT[k-1]
        socPrev == h.soc[k-1]
    IN  IF Pm >= 0
        THEN \* Driving
          LET use == use_pneu(kmh, Pprev, Pm, socPrev)
              sp == TractionSplit(use, Pm)
              Pe == sp[1]
              Pp == sp[2]
              load == MulDiv(Pe, 1000, motor_Pmax)
              batt == IF Pe > 0
                      THEN h.batt
                           - MulDiv(Pe, 1000, electric_motor_efficiency(kmh, load)) * dt
                      ELSE h.batt
              tk == HepvTank(Pprev, Tprev, Pp, dt, FALSE)
          IN  [h EXCEPT !.k = k + 1, !.batt = batt,
                        !.Pe[k] = Pe, !.Pp[k] = Pp,
                        !.pneu_count = PneuCountNext(@, use),
                        !.tankP[k] = tk[1], !.tankT[k] = tk[2],
                        !.soc[k] = Clip(batt, 0, BattCap),
                        !.Pm[k] = Pm, !.Pb0[k] = 0]
        ELSE \* Braking
          LET Preg == -Pm
              sp == RegenSplit(socPrev, Pprev, Preg)
              Pt == sp[2]
              Pb == HepvPbCap(sp[1], h.batt, dt)
              batt == h.batt + ((Pb * regen_eta) \div 100) * dt
              tk == HepvTank(Pprev, Tprev, Pt, dt, TRUE)
          IN  [h EXCEPT !.k = k + 1, !.batt = batt,
                        !.Pe[k] = -Pb, !.Pp[k] = -Pt,
                        !.tankP[k] = tk[1], !.tankT[k] = tk[2],
                        !.soc[k] = Clip(batt, 0, BattCap),
                        !.Pm[k] = Pm, !.Pb0[k] = sp[1]]

\* Faulty variant: the iteration limits the speed sample in place, in the
\* caller's array.
HepvStep_inplace ==
    /\ entry = "sim" /\ hepv.pc = "loop" /\ hepv.k < hepv.n
    /\ hepv' = HepvBody(hepv)
    /\ v' = [v EXCEPT ![hepv.k] = Min(@, 23)]
    /\ UNCHANGED << entry, t, bev, tank, cyc, effs >>

\* One iteration of "for k in range(1, n)" of simulate_hepv.
HepvStep ==
    /\ entry = "sim" /\ hepv.pc = "loop" /\ hepv.k < hepv.n
    /\ hepv' = HepvBody(hepv)
    /\ UNCHANGED << entry, t, v, bev, tank, cyc, effs >>

HepvResult(h) == [h EXCEPT !.pc = "done", !.E = BattCap - h.batt]

HepvReturn ==
    /\ entry = "sim" /\ hepv.pc = "loop" /\ hepv.k >= hepv.n
    /\ hepv' = HepvResult(hepv)
    /\ UNCHANGED << entry, t, v, bev, tank, cyc, effs >>

\* ------------------------------------- free-standing tank transitions
TankStarts == {Pamb, Pmin, Pmax}     \* pressures the transitions start from

TankEntry(P0) == [P |-> P0, T |-> Tamb, steps |-> 0, kind |-> "init",
                  Pw |-> 0, dt |-> 0, oldP |-> P0, oldT |-> Tamb, mid |-> P0]

\* The harness record after one tank_thermodynamics call; mid is the
\* intermediate pressure of the call.
TankAfter(kind, Pw, dt, charging) ==
    LET r == tank_thermodynamics(tank.P, tank.T, Pw, dt, charging)
    IN  [P |-> r[1], T |-> r[2], steps |-> tank.steps + 1,
         kind |-> kind, Pw |-> Pw, dt |-> dt,
         oldP |-> tank.P, oldT |-> tank.T,
         mid |-> TankIntermediate(tank.P, Pw, dt, charging)]

TankCharge ==
    /\ entry = "tank" /\ tank.steps < MaxTankSteps
    /\ \E Pw \in TankPowers, dt \in TankDTs :
         tank' = TankAfter("charge", Pw, dt, TRUE)
    /\ UNCHANGED << entry, t, v, bev, hepv, cyc, effs >>

TankDischarge ==
    /\ entry = "tank" /\ tank.steps < MaxTankSteps
    /\ \E Pw \in TankPowers, dt \in TankDTs :
         tank' = TankAfter("discharge", Pw, dt, FALSE)
    /\ UNCHANGED << entry, t, v, bev, hepv, cyc, effs >>

\* A transition with no flow.
TankIdle ==
    /\ entry = "tank" /\ tank.steps < MaxTankSteps
    /\ \E dt \in TankDTs, c \in BOOLEAN :
         tank' = TankAfter("idle", 0, dt, c)
    /\ UNCHANGED << entry, t, v, bev, hepv, cyc, effs >>

\* --------------------------------------------------------- urban_cycle
\* (t_start, t_end, v_start, v_end): times in s, speeds in mm/s.
segments == << << 0, 8, 0, 8333 >>, << 8, 18, 8333, 8333 >>,
               << 18, 23, 8333, 0 >>, << 23, 33, 0, 0 >>,
               << 33, 43, 0, 13888 >>, << 43, 63, 13888, 13888 >>,
               << 63, 70, 13888, 0 >>, << 70, 80, 0, 0 >> >>

period == 80

\* Faulty variant: the length is rounded down.
ArangeLen_floor(duration, dt) ==
    IF dt > 0 THEN (duration * 10) \div dt ELSE 0

\* len(np.arange(0, duration, dt)) for dt # 0: duration in s, dt in 0.1 s.
\* The length is max(ceil(duration / dt), 0), which is 0 for a negative dt.
ArangeLen(duration, dt) ==
    IF dt > 0 THEN -((-(duration * 10)) \div dt) ELSE 0

\* v[i] as the loops leave it: the segment of repeat r that covers index i
\* writes v_start + (v_end - v_start) * np.linspace(0, 1, i1 - i0)[i - i0];
\* an index no segment covers keeps the 0 of np.zeros_like.
CycleSpeed(i, len, dt, repeats) ==
    LET Cover == { rs \in (0..(repeats - 1)) \X (1..Len(segments)) :
                     LET sg == segments[rs[2]]
                         i0 == ((rs[1] * period + sg[1]) * 10) \div dt
                         i1 == Min(((rs[1] * period + sg[2]) * 10) \div dt, len)
                     IN  i0 < len /\ i0 <= i /\ i < i1 }
    IN  IF Cover = {} THEN 0
        ELSE LET rs == CHOOSE x \in Cover : TRUE
                 sg == segments[rs[2]]
                 i0 == ((rs[1] * period + sg[1]) * 10) \div dt
                 i1 == Min(((rs[1] * period + sg[2]) * 10) \div dt, len)
                 cnt == i1 - i0
             IN  IF cnt = 1 THEN sg[3]
                 ELSE sg[3] + ((sg[4] - sg[3]) * (i - i0)) \div (cnt - 1)

\* urban_cycle(duration, dt): the (t, v) arrays; t in 0.1 s, v in mm/s.
\* np.arange raises for dt = 0 (raised); for dt < 0 it returns an empty
\* array, every segment finds i0 >= len(t) or i1 <= i0, and the empty t and
\* v are returned.
urban_cycle(duration, dt) ==
    LET len == ArangeLen(duration, dt)
        repeats == duration \div period + 1
    IN  IF dt = 0
        THEN [duration |-> duration, dt |-> dt, raised |-> TRUE,
              t |-> << >>, v |-> << >>]
        ELSE [duration |-> duration, dt |-> dt, raised |-> FALSE,
              t |-> [i \in 0..(len - 1) |-> i * dt],
              v |-> [i \in 0..(len - 1) |-> CycleSpeed(i, len, dt, repeats)]]

Durations == (1..MaxDuration) \cup {85}     \* s

NoCycle == [duration |-> 0, dt |-> 0, raised |-> FALSE, t |-> << >>, v |-> << >>]

\* A call of urban_cycle; the previous result is kept for comparison.
CallCycle ==
    /\ entry = "cycle"
    /\ \E duration \in Durations, dt \in CycleDTs :
         cyc' = [cur |-> urban_cycle(duration, dt), prev |-> cyc.cur]
    /\ UNCHANGED << entry, t, v, bev, hepv, tank, effs >>

\* --------------------------------------------- calls of the efficiency maps
NoEff == [fn |-> "none", kmh |-> 0, x |-> 0, eta |-> 0]

\* A call electric_motor_efficiency(kmh, load).
CallElectricEfficiency ==
    /\ entry = "eff"
    /\ \E kmh \in EffSpeeds, load \in EffLoads :
         effs' = [fn |-> "electric", kmh |-> kmh, x |-> load,
                  eta |-> electric_motor_efficiency(kmh, load)]
    /\ UNCHANGED << entry, t, v, bev, hepv, tank, cyc >>

\* A call pneumatic_motor_efficiency(kmh, bar).
CallPneumaticEfficiency ==
    /\ entry = "eff"
    /\ \E kmh \in EffSpeeds, bar \in EffBars :
         effs' = [fn |-> "pneumatic", kmh |-> kmh, x |-> bar,
                  eta |-> pneumatic_motor_efficiency(kmh, bar)]
    /\ UNCHANGED << entry, t, v, bev, hepv, tank, cyc >>

\* ------------------------------------------------------- specification
Init ==
    /\ entry \in {"sim", "tank", "cycle", "eff"}
    /\ \E n \in 0..MaxLen, d \in DTs :
         /\ t = [i \in 0..(n - 1) |-> i * d]
         /\ v \in [0..(n - 1) -> Speeds]
         /\ entry # "sim" => n = 0 /\ d = 1
    /\ bev = BevEntry
    /\ hepv = HepvEntry
    /\ \E P0 \in TankStarts :
         /\ tank = TankEntry(P0)
         /\ entry # "tank" => P0 = Pamb
    /\ cyc = [cur |-> NoCycle, prev |-> NoCycle]
    /\ effs = NoEff

Next ==
    \/ BevStart \/ BevStep \/ BevReturn
    \/ HepvStart \/ HepvStep \/ HepvReturn
    \/ TankCharge \/ TankDischarge \/ TankIdle
    \/ CallCycle
    \/ CallElectricEfficiency \/ CallPneumaticEfficiency

Spec == Init /\ [][Next]_vars

\* ---------------------------------------------------------------- claims
HepvSteps == 1..(hepv.k - 1)       \* loop indices simulate_hepv has committed
BevSteps == 1..(bev.k - 1)         \* loop indices simulate_bev has committed

\* C1: at every index, 0 included, the SoC recorded by simulate_hepv is in
\* [0, battery_charge_limit] and the SoC recorded by simulate_bev is in [0, 1].
C1_SocWithinLimits ==
    /\ \A k \in 0..(hepv.k - 1) :
         0 <= hepv.soc[k] /\ hepv.soc[k] <= (BattCap \div 100) * 98
    /\ \A k \in 0..(bev.k - 1) :
         0 <= bev.soc[k] /\ bev.soc[k] <= BattCap

\* C2: after every tank transition and at every index of a simulate_hepv run
\* the tank pressure is in [Pamb, Pmax] and the temperature in [250 K, 400 K].
C2_TankWithinBounds ==
    /\ Pamb <= tank.P /\ tank.P <= Pmax
    /\ 25000 <= tank.T /\ tank.T <= 40000
    /\ \A k \in 0..(hepv.k - 1) :
         /\ Pamb <= hepv.tankP[k] /\ hepv.tankP[k] <= Pmax
         /\ 25000 <= hepv.tankT[k] /\ hepv.tankT[k] <= 40000

\* A discharge has driven the pressure into the upper clamp and the
\* temperature into a clamp.
C2_Witness ==
    /\ tank.kind = "discharge" /\ tank.steps >= 2
    /\ tank.P = Pmax /\ tank.T \in {27300, 40000}

\* C3: for a speed series that starts and ends at zero speed, the E_kWh that
\* simulate_bev returns is non-negative.
C3_BevEnergyNonNegative ==
    (bev.pc = "done" /\ v[0] = 0 /\ v[bev.n - 1] = 0) => bev.E >= 0

\* A returned run from rest to rest with a traction and a braking step.
C3_Witness ==
    /\ bev.pc = "done" /\ v[0] = 0 /\ v[bev.n - 1] = 0
    /\ \E i, j \in BevSteps : bev.power[i] > 0 /\ bev.power[j] < 0
    /\ bev.E > 0

\* C4: in a traction step of simulate_hepv the pneumatic path is used only if
\* speed < 35 km/h, tank pressure > 100 bar (and above ambient, so that air
\* is left), demand > 8 kW and SoC > 0.2, all but speed and demand read at
\* index k-1; when used it supplies 0.35 of the demand and the electric path
\* the rest, otherwise the electric path supplies the whole demand.
C4_PneumaticGuard ==
    \A k \in HepvSteps :
      hepv.Pm[k] >= 0 =>
        IF hepv.Pp[k] > 0
        THEN /\ v[k] * 36 < 350
             /\ hepv.tankP[k-1] > 400000 /\ hepv.tankP[k-1] > Pamb
             /\ hepv.Pm[k] > 80000
             /\ hepv.soc[k-1] * 5 > BattCap
             /\ hepv.Pp[k] = (35 * hepv.Pm[k]) \div 100
             /\ hepv.Pe[k] = hepv.Pm[k] - hepv.Pp[k]
        ELSE hepv.Pe[k] = hepv.Pm[k] /\ hepv.Pp[k] = 0

\* A traction step that passes the speed, demand and SoC tests and is kept
\* on the electric path by the tank pressure.
C4_Witness ==
    \E k \in HepvSteps :
      /\ v[k] * 36 < 350 /\ hepv.Pm[k] > 80000 /\ hepv.soc[k-1] * 5 > BattCap
      /\ hepv.tankP[k-1] <= 400000
      /\ hepv.Pe[k] = hepv.Pm[k] /\ hepv.Pp[k] = 0

C6_SignConvention ==
    \A k \in HepvSteps :
      /\ hepv.Pm[k] >= 0 => hepv.Pe[k] >= 0 /\ hepv.Pp[k] >= 0
      /\ hepv.Pm[k] < 0 => hepv.Pe[k] <= 0 /\ hepv.Pp[k] <= 0

\* C7: a step of simulate_hepv with no power through the pneumatic path still
\* advances the tank: the pressure falls when it is above Pamb and the
\* temperature moves when it is away from Tamb; and a tank at Pmin and Tamb
\* given zero flow loses pressure and keeps its temperature.
C7_NullTransition ==
    /\ \A k \in HepvSteps :
         hepv.Pp[k] = 0 =>
           /\ hepv.tankP[k-1] > Pamb => hepv.tankP[k] < hepv.tankP[k-1]
           /\ hepv.tankT[k-1] # Tamb => hepv.tankT[k] # hepv.tankT[k-1]
    /\ (tank.kind = "idle" /\ tank.oldP = Pmin /\ tank.oldT = Tamb)
         => tank.P < tank.oldP /\ tank.T = tank.oldT

\* The properties of an urban_cycle result that do not depend on the count:
\* sample times k * dt, strictly increasing, and no negative speed.
CycleShape(c) ==
    /\ DOMAIN c.t = DOMAIN c.v
    /\ \A i \in DOMAIN c.t : c.t[i] = i * c.dt
    /\ \A i \in DOMAIN c.t : i > 0 => c.t[i] > c.t[i-1]
    /\ \A i \in DOMAIN c.v : c.v[i] >= 0

\* C8: urban_cycle(duration, dt) returns floor(duration / dt) samples, at
\* times k * dt, with every speed >= 0.
C8_FloorCount ==
    cyc.cur.dt > 0 =>
      /\ ArrayLen(cyc.cur.t) = (cyc.cur.duration * 10) \div cyc.cur.dt
      /\ CycleShape(cyc.cur)

\* C8 amended: urban_cycle(duration, dt) returns ceil(duration / dt) samples
\* (the samples k * dt that lie in [0, duration)), with every speed >= 0.
C8_CeilCount ==
    cyc.cur.dt > 0 =>
      /\ ArrayLen(cyc.cur.t) * cyc.cur.dt >= cyc.cur.duration * 10
      /\ (ArrayLen(cyc.cur.t) - 1) * cyc.cur.dt < cyc.cur.duration * 10
      /\ CycleShape(cyc.cur)

\* A call whose dt does not divide the duration, with a moving sample.
C8_Witness ==
    /\ cyc.cur.dt > 0 /\ (cyc.cur.duration * 10) % cyc.cur.dt # 0
    /\ ArrayLen(cyc.cur.t) = (cyc.cur.duration * 10) \div cyc.cur.dt + 1
    /\ \E i \in DOMAIN cyc.cur.v : cyc.cur.v[i] > 0

\* C9: for the same dt and durations D1 < D2, the speeds of
\* urban_cycle(D1, dt) are the first samples of urban_cycle(D2, dt).
C9_TruncationPrefix ==
    (cyc.prev.dt > 0 /\ cyc.prev.dt = cyc.cur.dt
       /\ cyc.prev.duration < cyc.cur.duration)
      => \A i \in DOMAIN cyc.prev.v : cyc.prev.v[i] = cyc.cur.v[i]

\* C10: pneu_count is between 0 and the number of samples, and equals the
\* number of indices at which Pp[k] > 0.
C10_PneuCount ==
    /\ 0 <= hepv.pneu_count /\ hepv.pneu_count <= hepv.n
    /\ hepv.pneu_count = Cardinality({k \in HepvSteps : hepv.Pp[k] > 0})

\* A returned run with a traction step above the demand threshold.
C10_Witness ==
    /\ hepv.pc = "done" /\ hepv.n >= 3
    /\ \E k \in HepvSteps : hepv.Pm[k] > 80000 /\ v[k] * 36 < 350
    /\ hepv.pneu_count = Cardinality({k \in 0..(hepv.n - 1) : hepv.Pp[k] > 0})

\* simulate_bev run alone on (t, v), stopped when its loop index is j.
RECURSIVE BevAlone(_)
BevAlone(j) == IF j <= 1 THEN BevBegin(BevEntry) ELSE BevBody(BevAlone(j - 1))

\* simulate_hepv run alone on (t, v), stopped when its loop index is j.
RECURSIVE HepvAlone(_)
HepvAlone(j) == IF j <= 1 THEN HepvBegin(HepvEntry) ELSE HepvBody(HepvAlone(j - 1))

\* The state a run alone has at the position pc, k.
AloneAt(pc, k, entryRec, begun, result) ==
    IF pc = "start" THEN entryRec
    ELSE IF pc = "done" THEN result
    ELSE begun

\* C11: with the steps of simulate_bev and simulate_hepv interleaved in any
\* order on the same (t, v), each integrator holds at every position exactly
\* the locals and results it has at that position when run alone, and no step
\* changes the input series.
C11_NoSharedState ==
    /\ [](/\ bev = AloneAt(bev.pc, bev.k, BevEntry, BevAlone(bev.k),
                          BevResult(BevAlone(ArrayLen(t))))
          /\ hepv = AloneAt(hepv.pc, hepv.k, HepvEntry, HepvAlone(hepv.k),
                           HepvResult(HepvAlone(ArrayLen(t)))))
    /\ [][t' = t /\ v' = v]_vars

\* Both integrators are inside their loops on a moving series, at different
\* indices.
C11_Witness ==
    /\ bev.pc = "loop" /\ hepv.pc = "loop"
    /\ bev.n = 4 /\ bev.k = 3 /\ hepv.k = 2
    /\ \E i \in DOMAIN v : v[i] > 0
    /\ bev.batt < BattCap

\* C12: a call urban_cycle(duration, dt) with dt <= 0 fails at entry; it
\* never returns a series, empty or not.
C12_NonPositiveDtRejected ==
    (cyc.cur.duration > 0 /\ cyc.cur.dt <= 0) => cyc.cur.raised

\* C13: electric_motor_efficiency returns a value in [0.70, motor_eta_peak]
\* for every speed and load, and pneumatic_motor_efficiency a value in
\* [0.15, 0.45] for every speed and tank pressure.
C13_EfficiencyRange ==
    /\ effs.fn = "electric" => 700 <= effs.eta /\ effs.eta <= 920
    /\ effs.fn = "pneumatic" => 150 <= effs.eta /\ effs.eta <= 450

\* A pneumatic call at 700 bar, where the pressure factor is negative, comes
\* back at the floor of the band.
C13_Witness ==
    /\ effs.fn = "pneumatic" /\ effs.kmh = 900 /\ effs.x = 700
    /\ pneumatic_motor_efficiency_noclip(effs.kmh, effs.x) < 0
    /\ effs.eta = 150

\* C14: the intermediate pressure of a charging transition with positive
\* power is not below the old pressure, and that of a discharging transition
\* with positive power is not above it.
C14_PhysicalDirection ==
    /\ (tank.kind = "charge" /\ tank.Pw > 0) => tank.mid >= tank.oldP
    /\ (tank.kind = "discharge" /\ tank.Pw > 0) => tank.mid <= tank.oldP

\* C15: a braking step (power demand < 0) of either integrator leaves the
\* stored battery energy no lower than it was, and raises it by at most the
\* regenerated power times regen_eta times dt.
C15_BrakingNeverDrains ==
    [][/\ (bev.pc = "loop" /\ bev'.k = bev.k + 1 /\ bev'.power[bev.k] < 0)
          => /\ bev'.batt >= bev.batt
             /\ bev'.batt - bev.batt
                  <= (((-bev'.power[bev.k]) * regen_eta) \div 100) * bev.dt
       /\ (hepv.pc = "loop" /\ hepv'.k = hepv.k + 1 /\ hepv'.Pm[hepv.k] < 0)
          => /\ hepv'.batt >= hepv.batt
             /\ hepv'.batt - hepv.batt
                  <= (((-hepv'.Pm[hepv.k]) * regen_eta) \div 100) * hepv.dt
      ]_vars

\* C16: in every step of simulate_hepv that sends no power through the
\* pneumatic path or to the tank, the battery energy becomes what the rule of
\* simulate_bev (power limits, regen efficiency, charge cap) makes of the same
\* demand, battery energy and dt; so with equal mass, hence equal demand, the
\* two integrators hold the same battery energy and SoC step by step.
C16_SameBatteryRule ==
    [][(hepv.pc = "loop" /\ hepv'.k = hepv.k + 1 /\ hepv'.Pp[hepv.k] = 0)
         => LET k == hepv.k
                rule == BevBatt(Clip(hepv'.Pm[k], PowerClipLo, motor_Pmax),
                                v[k] * 36, hepv.batt, hepv.dt)
            IN  /\ hepv'.batt = rule
                /\ hepv'.soc[k] = Clip(rule, 0, BattCap)
      ]_vars

\* C17: each integrator commits index k right after index k-1, one index per
\* step from 1 to n-1, each written once, and the only state in which it can
\* take no further step is the one where it has returned its result with
\* every index visited; in particular it never stops in an error.
C17_OnlyExhaustionTerminates ==
    /\ [](entry = "sim" =>
            /\ (~ENABLED (BevStart \/ BevStep \/ BevReturn))
                 => (bev.pc = "done" /\ bev.k = Max(ArrayLen(t), 1))
            /\ (~ENABLED (HepvStart \/ HepvStep \/ HepvReturn))
                 => (hepv.pc = "done" /\ hepv.k = Max(ArrayLen(t), 1)))
    /\ [][/\ (bev.pc = "loop" /\ bev'.pc = "loop" /\ bev' # bev)
             => /\ bev'.k = bev.k + 1
                /\ \A i \in DOMAIN bev.soc :
                     i # bev.k => bev'.soc[i] = bev.soc[i]
          /\ (hepv.pc = "loop" /\ hepv'.pc = "loop" /\ hepv' # hepv)
             => /\ hepv'.k = hepv.k + 1
                /\ \A i \in DOMAIN hepv.soc :
                     i # hepv.k => hepv'.soc[i] = hepv.soc[i]
         ]_vars

\* C18: in both integrators the stored battery energy is within
\* [0, capacity] at every step, and a returned run reports an E_kWh that
\* equals (1 - soc[last]) * batt_kWh and does not exceed the capacity.
C18_EnergyAgreesWithSoc ==
    /\ bev.pc \in {"loop", "done"} =>
         /\ 0 <= bev.batt /\ bev.batt <= BattCap
         /\ bev.pc = "done" =>
              bev.E = BattCap - bev.soc[bev.n - 1] /\ bev.E <= BattCap
    /\ hepv.pc \in {"loop", "done"} =>
         /\ 0 <= hepv.batt /\ hepv.batt <= BattCap
         /\ hepv.pc = "done" =>
              hepv.E = BattCap - hepv.soc[hepv.n - 1] /\ hepv.E <= BattCap

====
